---- MODULE Spec2Model ----
(***************************************************************************)
(* Aadhaar district analytics: the aggregation pipeline of src/main.py,    *)
(* src/interface/main.py and src/interface/precompute_data.py.             *)
(*                                                                         *)
(* Strings are sequences of one-character strings, so that lower(),        *)
(* strip(), split('|') and the f-string "state|district" are computed as   *)
(* Python computes them.  Floating-point metrics are exact rationals,      *)
(* written <<numerator, denominator>> with a positive denominator.         *)
(***************************************************************************)
EXTENDS Integers, Sequences, FiniteSets, TLC

(***************************************************************************)
(* Bounds of the model.                                                    *)
(***************************************************************************)
\* raw rows of the three collections together
MaxRows == 4
\* the events of one raw row of the pipeline (1..MaxCount over its brackets)
MaxCount == 1
\* the largest small bracket count of the derived-metrics specification
MaxBracket == 2

(***************************************************************************)
(* Characters and the string methods the code uses.                        *)
(***************************************************************************)
\* str.lower() on the characters of the model (ASCII)
LowerChar(c) ==
    CASE c = "A" -> "a"
      [] c = "G" -> "g"
      [] c = "M" -> "m"
      [] c = "P" -> "p"
      [] c = "U" -> "u"
      [] OTHER -> c

\* str.upper() on the characters of the model (ASCII)
UpperChar(c) ==
    CASE c = "a" -> "A"
      [] c = "g" -> "G"
      [] c = "m" -> "M"
      [] c = "p" -> "P"
      [] c = "u" -> "U"
      [] c = "z" -> "Z"
      [] OTHER -> c

\* code points, for the lexicographic order of sorted keys
CharCode(c) ==
    CASE c = " " -> 32
      [] c = "-" -> 45
      [] c = "0" -> 48
      [] c = "1" -> 49
      [] c = "2" -> 50
      [] c = "3" -> 51
      [] c = "4" -> 52
      [] c = "5" -> 53
      [] c = "6" -> 54
      [] c = "7" -> 55
      [] c = "8" -> 56
      [] c = "9" -> 57
      [] c = "A" -> 65
      [] c = "G" -> 71
      [] c = "M" -> 77
      [] c = "N" -> 78
      [] c = "P" -> 80
      [] c = "T" -> 84
      [] c = "U" -> 85
      [] c = "Z" -> 90
      [] c = "a" -> 97
      [] c = "g" -> 103
      [] c = "m" -> 109
      [] c = "p" -> 112
      [] c = "u" -> 117
      [] c = "z" -> 122
      [] c = "|" -> 124
      [] OTHER -> 0

lower(s) == [i \in 1..Len(s) |-> LowerChar(s[i])]

upper(s) == [i \in 1..Len(s) |-> UpperChar(s[i])]

RECURSIVE lstrip(_)
lstrip(s) == IF s # <<>> /\ Head(s) = " " THEN lstrip(Tail(s)) ELSE s

RECURSIVE rstrip(_)
rstrip(s) ==
    IF s # <<>> /\ s[Len(s)] = " " THEN rstrip(SubSeq(s, 1, Len(s) - 1)) ELSE s

strip(s) == rstrip(lstrip(s))

\* str.split('|'): the fields between the separators
RECURSIVE split(_)
split(s) ==
    IF \A i \in 1..Len(s) : s[i] # "|"
    THEN <<s>>
    ELSE LET i == CHOOSE j \in 1..Len(s) :
                      s[j] = "|" /\ \A k \in 1..(j - 1) : s[k] # "|"
         IN  <<SubSeq(s, 1, i - 1)>> \o split(SubSeq(s, i + 1, Len(s)))

HasBar(s) == \E i \in 1..Len(s) : s[i] = "|"

\* Python's < on strings
RECURSIVE StrLess(_, _)
StrLess(a, b) ==
    IF b = <<>> THEN FALSE
    ELSE IF a = <<>> THEN TRUE
    ELSE IF Head(a) # Head(b) THEN CharCode(Head(a)) < CharCode(Head(b))
    ELSE StrLess(Tail(a), Tail(b))

\* the order of (state, district) keys in a sorted groupby / outer merge
KeyLess(k1, k2) ==
    \/ StrLess(k1[1], k2[1])
    \/ k1[1] = k2[1] /\ StrLess(k1[2], k2[2])

(***************************************************************************)
(* Dates: pd.to_datetime(format='%d-%m-%Y', errors='coerce') and the month *)
(* bucket dt.to_period('M').astype(str).                                   *)
(***************************************************************************)
\* the first position from i on where s holds sep, Len(s) + 1 if there is none
RECURSIVE Find(_, _, _)
Find(s, sep, i) ==
    IF i > Len(s) \/ s[i] = sep THEN i ELSE Find(s, sep, i + 1)

\* the fields of s between the separators sep
RECURSIVE SplitOn(_, _)
SplitOn(s, sep) ==
    LET i == Find(s, sep, 1)
    IN  IF i > Len(s) THEN <<s>>
        ELSE <<SubSeq(s, 1, i - 1)>> \o SplitOn(SubSeq(s, i + 1, Len(s)), sep)

DigitChar(n) == <<"0", "1", "2", "3", "4", "5", "6", "7", "8", "9">>[n + 1]

IsNumber(f) == f # <<>> /\ \A i \in 1..Len(f) : CharCode(f[i]) \in 48..57

RECURSIVE NumberValue(_)
NumberValue(f) ==
    IF f = <<>> THEN 0
    ELSE 10 * NumberValue(SubSeq(f, 1, Len(f) - 1)) + (CharCode(f[Len(f)]) - 48)

IsLeap(y) == (y % 4 = 0 /\ y % 100 # 0) \/ y % 400 = 0

DaysInMonth(m, y) ==
    IF m = 2 THEN (IF IsLeap(y) THEN 29 ELSE 28)
    ELSE IF m \in {4, 6, 9, 11} THEN 30 ELSE 31

\* does the string match the format '%d-%m-%Y' and name a day of the calendar
IsDate(s) ==
    LET f == SplitOn(s, "-")
    IN  /\ Len(f) = 3
        /\ IsNumber(f[1]) /\ Len(f[1]) <= 2
        /\ IsNumber(f[2]) /\ Len(f[2]) <= 2
        /\ IsNumber(f[3]) /\ Len(f[3]) = 4
        /\ NumberValue(f[2]) \in 1..12
        /\ NumberValue(f[1]) \in 1..DaysInMonth(NumberValue(f[2]), NumberValue(f[3]))

\* to_datetime on a string that parses: <<year, month, day>>
ParseDate(s) ==
    LET f == SplitOn(s, "-")
    IN  <<NumberValue(f[3]), NumberValue(f[2]), NumberValue(f[1])>>

\* str() of the month of a date that errors='coerce' turned into NaT
NaT == <<"N", "a", "T">>

\* the month column: 'YYYY-MM', and the string 'NaT' for a date that did not
\* parse
MonthOf(date) ==
    IF ~IsDate(date) THEN NaT
    ELSE LET d == ParseDate(date)
         IN  <<DigitChar(d[1] \div 1000), DigitChar((d[1] \div 100) % 10),
               DigitChar((d[1] \div 10) % 10), DigitChar(d[1] % 10), "-",
               DigitChar(d[2] \div 10), DigitChar(d[2] % 10)>>

\* a set of strings as the sequence sort_values returns
RECURSIVE SortStrings(_)
SortStrings(S) ==
    IF S = {} THEN <<>>
    ELSE LET m == CHOOSE x \in S : \A y \in S \ {x} : StrLess(x, y)
         IN  <<m>> \o SortStrings(S \ {m})

(***************************************************************************)
(* Exact rationals for the float columns.                                  *)
(***************************************************************************)
Frac(n, d) == <<n, d>>

FracEq(a, b) == a[1] * b[2] = b[1] * a[2]

FracLess(a, b) == a[1] * b[2] < b[1] * a[2]

FracGt(a, k) == a[1] > k * a[2]

FracIsZero(a) == a[1] = 0

\* mutant: the denominator is used as it is
replace01_Unguarded(x) == x

\* Series.replace(0, 1) on a denominator
replace01(x) == IF x = 0 THEN 1 ELSE x

\* Python's round(x, k) on an exact rational: the nearest multiple of 10^-k,
\* a tie going to the even neighbour; p is 10^k
round(a, p) ==
    LET n == 2 * a[1] * p + a[2]
        d == 2 * a[2]
        q == n \div d
    IN  IF n % d = 0 /\ q % 2 = 1 THEN Frac(q - 1, p) ELSE Frac(q, p)

\* min(x, 100)
min100(a) == IF FracGt(a, 100) THEN Frac(100, 1) ELSE a

abs(x) == IF x < 0 THEN 0 - x ELSE x

(***************************************************************************)
(* Ordered dictionaries: a sequence of <<key, value>> in insertion order.  *)
(***************************************************************************)
DictKeys(d) == {d[i][1] : i \in 1..Len(d)}

DictGet(d, k) == d[CHOOSE i \in 1..Len(d) : d[i][1] = k][2]

DictValues(d) == [i \in 1..Len(d) |-> d[i][2]]

\* d[k] = v: an existing key keeps its position and takes the new value
DictPut(d, k, v) ==
    IF k \in DictKeys(d)
    THEN [i \in 1..Len(d) |-> IF d[i][1] = k THEN <<k, v>> ELSE d[i]]
    ELSE Append(d, <<k, v>>)

(***************************************************************************)
(* The raw collections (RawEvent rows).                                    *)
(***************************************************************************)
MH == <<"M">>
UP == <<"U">>
Pune == <<"P", "u">>
Agra == <<"A", "g", " ">>

\* the (state, district) pairs of the raw rows: Pune exists in both states
Regions == {<<MH, Pune>>, <<UP, Pune>>, <<MH, Agra>>}

\* "15-01-2023", "20-01-2023", "01-03-2023", "05-12-2022"
Jan15 == <<"1", "5", "-", "0", "1", "-", "2", "0", "2", "3">>
Jan20 == <<"2", "0", "-", "0", "1", "-", "2", "0", "2", "3">>
Mar01 == <<"0", "1", "-", "0", "3", "-", "2", "0", "2", "3">>
Dec05 == <<"0", "5", "-", "1", "2", "-", "2", "0", "2", "2">>
\* a date in another format, "2023-01-15": it does not parse as day-month-year
IsoDate == <<"2", "0", "2", "3", "-", "0", "1", "-", "1", "5">>

\* the rows of the pipeline all carry the one date Jan15
EnrolmentRows ==
    {r \in [state : {k[1] : k \in Regions}, district : {k[2] : k \in Regions},
            date : {Jan15}, age_0_5 : 0..MaxCount, age_5_17 : 0..MaxCount,
            age_18_greater : 0..MaxCount] :
        /\ <<r.state, r.district>> \in Regions
        /\ r.age_0_5 + r.age_5_17 + r.age_18_greater \in 1..MaxCount}

\* the update rows of the pipeline specification count adults; rows that
\* count children are among those of the series specification
DemographicRows ==
    {r \in [state : {k[1] : k \in Regions}, district : {k[2] : k \in Regions},
            date : {Jan15}, demo_age_5_17 : 0..MaxCount, demo_age_17_ : 0..MaxCount] :
        /\ <<r.state, r.district>> \in Regions
        /\ r.demo_age_5_17 = 0
        /\ r.demo_age_17_ \in 1..MaxCount}

BiometricRows ==
    {r \in [state : {k[1] : k \in Regions}, district : {k[2] : k \in Regions},
            date : {Jan15}, bio_age_5_17 : 0..MaxCount, bio_age_17_ : 0..MaxCount] :
        /\ <<r.state, r.district>> \in Regions
        /\ r.bio_age_5_17 = 0
        /\ r.bio_age_17_ \in 1..MaxCount}

\* the raw collections of at most n rows; the empty one is pd.DataFrame(),
\* which has no columns
RECURSIVE Frames(_, _)
Frames(rows, n) ==
    IF n = 0 THEN {{}}
    ELSE LET P == Frames(rows, n - 1)
         IN  P \cup {p \cup {x} : p \in P, x \in rows}

(***************************************************************************)
(* Region Aggregator: groupby(['state', 'district']) and sum.              *)
(***************************************************************************)
RECURSIVE SumCol(_, _)
SumCol(df, col) ==
    IF df = {} THEN 0
    ELSE LET r == CHOOSE x \in df : TRUE
         IN  r[col] + SumCol(df \ {r}, col)

GroupKeys(df) == {<<r.state, r.district>> : r \in df}

Group(df, k) == {r \in df : r.state = k[1] /\ r.district = k[2]}

\* groupby on a frame without columns raises KeyError: 'state'
GroupByRaises(df) == df = {}

\* mutant: the adult bracket is left out of the total
EnrolTotal_NoAdults(a, b, c) == a + b

\* total_enrolments = enrol_0_5 + enrol_5_17 + enrol_18_plus
EnrolTotal(a, b, c) == a + b + c

\* total_demo_updates / total_bio_updates = the two brackets
UpdateTotal(a, b) == a + b

enrolment_agg(df) ==
    {LET g == Group(df, k)
         a == SumCol(g, "age_0_5")
         b == SumCol(g, "age_5_17")
         c == SumCol(g, "age_18_greater")
     IN  [state |-> k[1], district |-> k[2], enrol_0_5 |-> a, enrol_5_17 |-> b,
          enrol_18_plus |-> c, total_enrolments |-> EnrolTotal(a, b, c)] :
        k \in GroupKeys(df)}

demographic_agg(df) ==
    {LET g == Group(df, k)
         a == SumCol(g, "demo_age_5_17")
         b == SumCol(g, "demo_age_17_")
     IN  [state |-> k[1], district |-> k[2], demo_5_17 |-> a, demo_18_plus |-> b,
          total_demo_updates |-> UpdateTotal(a, b)] :
        k \in GroupKeys(df)}

biometric_agg(df) ==
    {LET g == Group(df, k)
         a == SumCol(g, "bio_age_5_17")
         b == SumCol(g, "bio_age_17_")
     IN  [state |-> k[1], district |-> k[2], bio_5_17 |-> a, bio_18_plus |-> b,
          total_bio_updates |-> UpdateTotal(a, b)] :
        k \in GroupKeys(df)}

AggKeys(agg) == {<<r.state, r.district>> : r \in agg}

AggRow(agg, k) == CHOOSE r \in agg : r.state = k[1] /\ r.district = k[2]

\* mutant: how='left'
OuterJoinKeys_Left(a, b) == a

\* the keys of a.merge(b, on=['state', 'district'], how='outer')
OuterJoinKeys(a, b) == a \cup b

\* a column of the merged row of key k after fillna(0)
Filled(agg, k, col) == IF k \in AggKeys(agg) THEN AggRow(agg, k)[col] ELSE 0

\* the count columns of the merged table, one record per key
MergedCounts(e, d, b, k) ==
    [state |-> k[1], district |-> k[2],
     enrol_0_5 |-> Filled(e, k, "enrol_0_5"),
     enrol_5_17 |-> Filled(e, k, "enrol_5_17"),
     enrol_18_plus |-> Filled(e, k, "enrol_18_plus"),
     total_enrolments |-> Filled(e, k, "total_enrolments"),
     demo_5_17 |-> Filled(d, k, "demo_5_17"),
     demo_18_plus |-> Filled(d, k, "demo_18_plus"),
     total_demo_updates |-> Filled(d, k, "total_demo_updates"),
     bio_5_17 |-> Filled(b, k, "bio_5_17"),
     bio_18_plus |-> Filled(b, k, "bio_18_plus"),
     total_bio_updates |-> Filled(b, k, "total_bio_updates")]

\* an outer merge returns its keys in lexicographic order
RECURSIVE SortKeys(_)
SortKeys(K) ==
    IF K = {} THEN <<>>
    ELSE LET m == CHOOSE x \in K : \A y \in K \ {x} : KeyLess(x, y)
         IN  <<m>> \o SortKeys(K \ {m})

(***************************************************************************)
(* Derived Metrics Engine.  c is a record of the count columns.            *)
(***************************************************************************)
adult_enrolment_share(c) ==
    Frac(c.enrol_18_plus * 100, replace01(c.total_enrolments))

child_enrolment_share(c) ==
    Frac((c.enrol_0_5 + c.enrol_5_17) * 100, replace01(c.total_enrolments))

\* mutant: an empty region gets volatility 0 instead of a denominator of 1
identity_volatility_ZeroOnEmpty(c) ==
    Frac(IF c.total_enrolments = 0 THEN 0 ELSE c.total_demo_updates,
         replace01(c.total_enrolments))

identity_volatility(c) ==
    Frac(c.total_demo_updates, replace01(c.total_enrolments))

adult_bio_compliance(c) ==
    Frac(c.bio_18_plus * 100, replace01(c.enrol_18_plus))

\* mutant: the 0-5 bracket is left out of the denominator
child_bio_compliance_SchoolAge(c) ==
    Frac(c.bio_5_17 * 100, replace01(c.enrol_5_17))

child_bio_compliance(c) ==
    Frac(c.bio_5_17 * 100, replace01(c.enrol_5_17 + c.enrol_0_5))

\* main.py: bio updates relative to demo updates
lifecycle_integrity_ratio(c) ==
    Frac(c.total_bio_updates, replace01(c.total_demo_updates))

\* main.py: signed
maintenance_imbalance_signed(c) ==
    Frac(c.total_demo_updates - c.total_bio_updates,
         replace01(c.total_demo_updates))

\* precompute_data.py: normalised to a percentage of the enrolments
lifecycle_integrity_percent(c) ==
    Frac((c.total_bio_updates + c.total_demo_updates) * 100,
         replace01(c.total_enrolments) * 2)

\* precompute_data.py: unsigned
maintenance_imbalance_unsigned(c) ==
    Frac(abs(c.total_demo_updates - c.total_bio_updates),
         replace01(c.total_demo_updates + c.total_bio_updates))

\* the metric columns of compute_district_aggregates
LiveMetrics(c) ==
    [adult_enrolment_share |-> adult_enrolment_share(c),
     child_enrolment_share |-> child_enrolment_share(c),
     identity_volatility |-> identity_volatility(c),
     adult_bio_compliance |-> adult_bio_compliance(c),
     child_bio_compliance |-> child_bio_compliance(c),
     lifecycle_integrity |-> lifecycle_integrity_ratio(c),
     maintenance_imbalance |-> maintenance_imbalance_signed(c)]

\* the metric columns of compute_and_save_aggregates
PrecomputeMetrics(c) ==
    [adult_enrolment_share |-> adult_enrolment_share(c),
     child_enrolment_share |-> child_enrolment_share(c),
     identity_volatility |-> identity_volatility(c),
     adult_bio_compliance |-> adult_bio_compliance(c),
     child_bio_compliance |-> child_bio_compliance(c),
     lifecycle_integrity |-> lifecycle_integrity_percent(c),
     maintenance_imbalance |-> maintenance_imbalance_unsigned(c)]

(***************************************************************************)
(* Typology Classifier.                                                    *)
(***************************************************************************)
\* mutant: the Adult-Heavy threshold is inclusive
classify_typology_Inclusive(row) ==
    IF row.total_enrolments = 0 THEN "No Data"
    ELSE IF ~FracLess(row.adult_enrolment_share, Frac(70, 1)) THEN "Adult-Heavy"
    ELSE IF FracGt(row.child_enrolment_share, 50) THEN "Child-Heavy"
    ELSE IF 2 * row.identity_volatility[1] > row.identity_volatility[2]
         THEN "High-Churn"
    ELSE IF FracGt(row.lifecycle_integrity, 50) THEN "Well-Maintained"
    ELSE "Standard"

\* absolute policy; row has the count and the metric columns
classify_typology(row) ==
    IF row.total_enrolments = 0 THEN "No Data"
    ELSE IF FracGt(row.adult_enrolment_share, 70) THEN "Adult-Heavy"
    ELSE IF FracGt(row.child_enrolment_share, 50) THEN "Child-Heavy"
    ELSE IF 2 * row.identity_volatility[1] > row.identity_volatility[2]
         THEN "High-Churn"
    ELSE IF FracGt(row.lifecycle_integrity, 50) THEN "Well-Maintained"
    ELSE "Standard"

RECURSIVE InsertFrac(_, _)
InsertFrac(s, x) ==
    IF s = <<>> THEN <<x>>
    ELSE IF FracLess(x, Head(s)) THEN <<x>> \o s
    ELSE <<Head(s)>> \o InsertFrac(Tail(s), x)

RECURSIVE SortFracs(_)
SortFracs(s) == IF s = <<>> THEN <<>> ELSE InsertFrac(SortFracs(Tail(s)), Head(s))

\* Series.median() of a non-empty column
median(col) ==
    LET s == SortFracs(col)
        n == Len(s)
        lo == s[n \div 2]
        hi == s[n \div 2 + 1]
    IN  IF n % 2 = 1 THEN s[(n + 1) \div 2]
        ELSE Frac(lo[1] * hi[2] + hi[1] * lo[2], 2 * lo[2] * hi[2])

\* classify_district with a strict comparison in its third branch: a region
\* whose enrolment equals the median falls through to the last two branches
classify_district_StrictGrowth(row, median_enrolment, median_volatility) ==
    LET volatility == row.identity_volatility
        enrolment == Frac(row.total_enrolments, 1)
        bio_compliance == row.adult_bio_compliance
    IN  IF FracLess(volatility, median_volatility)
           /\ FracLess(enrolment, median_enrolment)
        THEN "Stable & Saturated"
        ELSE IF ~FracLess(volatility, median_volatility) THEN "Volatile"
        ELSE IF FracLess(median_enrolment, enrolment)
                /\ FracLess(volatility, median_volatility)
             THEN "Growth-focused"
        ELSE IF bio_compliance[1] < 50 * bio_compliance[2] THEN "Under-maintained"
        ELSE "Balanced"

\* mutant: a volatility equal to the median is not Volatile
classify_district_StrictVolatile(row, median_enrolment, median_volatility) ==
    LET volatility == row.identity_volatility
        enrolment == Frac(row.total_enrolments, 1)
        bio_compliance == row.adult_bio_compliance
    IN  IF FracLess(volatility, median_volatility)
           /\ FracLess(enrolment, median_enrolment)
        THEN "Stable & Saturated"
        ELSE IF FracLess(median_volatility, volatility) THEN "Volatile"
        ELSE IF ~FracLess(enrolment, median_enrolment)
                /\ FracLess(volatility, median_volatility)
             THEN "Growth-focused"
        ELSE IF bio_compliance[1] < 50 * bio_compliance[2] THEN "Under-maintained"
        ELSE "Balanced"

\* relative policy; the medians are those of the whole merged table
classify_district(row, median_enrolment, median_volatility) ==
    LET volatility == row.identity_volatility
        enrolment == Frac(row.total_enrolments, 1)
        bio_compliance == row.adult_bio_compliance
    IN  IF FracLess(volatility, median_volatility)
           /\ FracLess(enrolment, median_enrolment)
        THEN "Stable & Saturated"
        ELSE IF ~FracLess(volatility, median_volatility) THEN "Volatile"
        ELSE IF ~FracLess(enrolment, median_enrolment)
                /\ FracLess(volatility, median_volatility)
             THEN "Growth-focused"
        ELSE IF bio_compliance[1] < 50 * bio_compliance[2] THEN "Under-maintained"
        ELSE "Balanced"

(***************************************************************************)
(* The merged per-region table, in the order of the merge.                 *)
(***************************************************************************)
\* the merged count columns of three non-empty collections
MergedTable(enrolment_df, demographic_df, biometric_df) ==
    LET e == enrolment_agg(enrolment_df)
        d == demographic_agg(demographic_df)
        b == biometric_agg(biometric_df)
        ks == SortKeys(OuterJoinKeys(OuterJoinKeys(AggKeys(e), AggKeys(d)),
                                     AggKeys(b)))
    IN  [i \in 1..Len(ks) |-> MergedCounts(e, d, b, ks[i])]

\* the merged count columns with the metric columns and district_typology of
\* main.py
LiveRows(merged) ==
    LET m == [i \in 1..Len(merged) |-> merged[i] @@ LiveMetrics(merged[i])]
        median_enrolment ==
            median([i \in 1..Len(m) |-> Frac(m[i].total_enrolments, 1)])
        median_volatility ==
            median([i \in 1..Len(m) |-> m[i].identity_volatility])
    IN  [i \in 1..Len(m) |->
            m[i] @@ [district_typology |->
                        classify_district(m[i], median_enrolment,
                                          median_volatility)]]

\* merged, as compute_district_aggregates builds it from the three frames
LiveTable(enrolment_df, demographic_df, biometric_df) ==
    LiveRows(MergedTable(enrolment_df, demographic_df, biometric_df))

\* merged, with the metric columns and district_typology of precompute_data.py
PrecomputeTable(enrolment_df, demographic_df, biometric_df) ==
    LET counts == MergedTable(enrolment_df, demographic_df, biometric_df)
        m == [i \in 1..Len(counts) |-> counts[i] @@ PrecomputeMetrics(counts[i])]
    IN  [i \in 1..Len(m) |->
            m[i] @@ [district_typology |-> classify_typology(m[i])]]

\* result[row['district'].lower().strip()] = row.to_dict(), row after row
RECURSIVE LiveDict(_, _)
LiveDict(result, rows) ==
    IF rows = <<>> THEN result
    ELSE LiveDict(DictPut(result, strip(lower(Head(rows).district)), Head(rows)),
                  Tail(rows))

\* f"{row['state']}|{row['district']}"
CompositeKey(state, district) == state \o <<"|">> \o district

\* the value stored per region by compute_and_save_aggregates
PrecomputeEntry(row) ==
    [state |-> row.state, district |-> row.district,
     total_enrolments |-> row.total_enrolments,
     enrol_0_5 |-> row.enrol_0_5, enrol_5_17 |-> row.enrol_5_17,
     enrol_18_plus |-> row.enrol_18_plus,
     total_demo_updates |-> row.total_demo_updates,
     demo_5_17 |-> row.demo_5_17, demo_18_plus |-> row.demo_18_plus,
     total_bio_updates |-> row.total_bio_updates,
     bio_5_17 |-> row.bio_5_17, bio_18_plus |-> row.bio_18_plus,
     adult_enrolment_share |-> round(row.adult_enrolment_share, 100),
     child_enrolment_share |-> round(row.child_enrolment_share, 100),
     identity_volatility |-> round(row.identity_volatility, 10000),
     adult_bio_compliance |-> round(row.adult_bio_compliance, 100),
     child_bio_compliance |-> round(row.child_bio_compliance, 100),
     lifecycle_integrity |-> round(row.lifecycle_integrity, 100),
     maintenance_imbalance |-> round(row.maintenance_imbalance, 10000),
     district_typology |-> row.district_typology]

RECURSIVE PrecomputeDict(_, _)
PrecomputeDict(aggregates, rows) ==
    IF rows = <<>> THEN aggregates
    ELSE PrecomputeDict(
             DictPut(aggregates,
                     CompositeKey(Head(rows).state, Head(rows).district),
                     PrecomputeEntry(Head(rows))),
             Tail(rows))

(***************************************************************************)
(* Time-Series Aggregator of main.py and interface/main.py (live).         *)
(***************************************************************************)
\* df['month'] = df['date'].dt.to_period('M').astype(str)
WithMonth(df) == {r @@ [month |-> MonthOf(r.date)] : r \in df}

\* the rows of one (district, month) group of groupby(['district', 'month'])
MonthGroup(df, district, month) ==
    {r \in df : r.district = district /\ r.month = month}

\* the months of the groups of a district, as sort_values('month') orders them
MonthsOf(df, district) ==
    SortStrings({r.month : r \in {x \in df : x.district = district}})

\* result[district_key]['enrolment']; df has the month column
enrolment_series(df, district) ==
    LET months == MonthsOf(df, district)
        g(i) == MonthGroup(df, district, months[i])
    IN  [months |-> months,
         total |-> [i \in 1..Len(months) |->
                       SumCol(g(i), "age_0_5") + SumCol(g(i), "age_5_17")
                       + SumCol(g(i), "age_18_greater")],
         children |-> [i \in 1..Len(months) |->
                          SumCol(g(i), "age_0_5") + SumCol(g(i), "age_5_17")],
         adults |-> [i \in 1..Len(months) |-> SumCol(g(i), "age_18_greater")]]

\* result[district_key]['demographic']
demographic_series(df, district) ==
    LET months == MonthsOf(df, district)
        g(i) == MonthGroup(df, district, months[i])
    IN  [months |-> months,
         total |-> [i \in 1..Len(months) |->
                       SumCol(g(i), "demo_age_5_17") + SumCol(g(i), "demo_age_17_")],
         children |-> [i \in 1..Len(months) |-> SumCol(g(i), "demo_age_5_17")],
         adults |-> [i \in 1..Len(months) |-> SumCol(g(i), "demo_age_17_")]]

\* result[district_key]['biometric']
biometric_series(df, district) ==
    LET months == MonthsOf(df, district)
        g(i) == MonthGroup(df, district, months[i])
    IN  [months |-> months,
         total |-> [i \in 1..Len(months) |->
                       SumCol(g(i), "bio_age_5_17") + SumCol(g(i), "bio_age_17_")],
         children |-> [i \in 1..Len(months) |-> SumCol(g(i), "bio_age_5_17")],
         adults |-> [i \in 1..Len(months) |-> SumCol(g(i), "bio_age_17_")]]

\* for district in enrol_ts['district'].unique(): result[district_key] = {...}
RECURSIVE LiveSeriesDict(_, _, _, _, _)
LiveSeriesDict(result, districts, e, d, b) ==
    IF districts = <<>> THEN result
    ELSE LiveSeriesDict(
             DictPut(result, strip(lower(Head(districts))),
                     [enrolment |-> enrolment_series(e, Head(districts)),
                      demographic |-> demographic_series(d, Head(districts)),
                      biometric |-> biometric_series(b, Head(districts))]),
             Tail(districts), e, d, b)

\* the body of compute_time_series_data on three frames that have columns
LiveTimeSeries(e, d, b) ==
    LiveSeriesDict(<<>>, SortStrings({r.district : r \in e}),
                   WithMonth(e), WithMonth(d), WithMonth(b))

(***************************************************************************)
(* Time series of precompute_data.py: groups of (state, district, date).   *)
(***************************************************************************)
\* the total of one group of a collection ("enrolment", "demographic" or
\* "biometric")
GroupValue(kind, g) ==
    IF kind = "enrolment"
    THEN SumCol(g, "age_0_5") + SumCol(g, "age_5_17") + SumCol(g, "age_18_greater")
    ELSE IF kind = "demographic"
    THEN SumCol(g, "demo_age_5_17") + SumCol(g, "demo_age_17_")
    ELSE SumCol(g, "bio_age_5_17") + SumCol(g, "bio_age_17_")

\* {'months': sorted_group['date'].tolist(), 'values': [...]}: the groups of
\* one region in the order sort_values('date') gives the date strings
PrecomputeSeries(kind, df, k) ==
    LET dates == SortStrings({r.date : r \in Group(df, k)})
    IN  [months |-> dates,
         values |-> [i \in 1..Len(dates) |->
                        GroupValue(kind, {r \in Group(df, k) : r.date = dates[i]})]]

\* one of the three loops over groupby(['state', 'district'])
RECURSIVE PutSeries(_, _, _, _)
PutSeries(time_series, kind, df, keys) ==
    IF keys = <<>> THEN time_series
    ELSE LET district_key == CompositeKey(Head(keys)[1], Head(keys)[2])
             old == IF district_key \in DictKeys(time_series)
                    THEN DictGet(time_series, district_key)
                    ELSE <<>>
             new == [x \in (DOMAIN old) \cup {kind} |->
                        IF x = kind THEN PrecomputeSeries(kind, df, Head(keys))
                        ELSE old[x]]
         IN  PutSeries(DictPut(time_series, district_key, new), kind, df,
                       Tail(keys))

\* time_series.json
PrecomputeTimeSeries(e, d, b) ==
    PutSeries(
        PutSeries(PutSeries(<<>>, "enrolment", e, SortKeys(GroupKeys(e))),
                  "demographic", d, SortKeys(GroupKeys(d))),
        "biometric", b, SortKeys(GroupKeys(b)))

(***************************************************************************)
(* Corpus Summarizer.                                                      *)
(***************************************************************************)
RECURSIVE GCD(_, _)
GCD(a, b) == IF b = 0 THEN a ELSE GCD(b, a % b)

\* the same rational in lowest terms
Reduce(a) ==
    LET g == GCD(abs(a[1]), a[2])
    IN  Frac(a[1] \div g, a[2] \div g)

FracAdd(a, b) ==
    LET x == Reduce(a)
        y == Reduce(b)
    IN  Reduce(Frac(x[1] * y[2] + y[1] * x[2], x[2] * y[2]))

RECURSIVE SeqSum(_)
SeqSum(s) == IF s = <<>> THEN 0 ELSE Head(s) + SeqSum(Tail(s))

RECURSIVE FracSum(_)
FracSum(s) == IF s = <<>> THEN Frac(0, 1) ELSE FracAdd(Head(s), FracSum(Tail(s)))

\* Series.mean() of a non-empty column
mean(col) == LET t == FracSum(col) IN Frac(t[1], t[2] * Len(col))

\* mutant: every label that occurs is counted once
value_counts_Unique(col) ==
    [l \in {col[i] : i \in 1..Len(col)} |-> 1]

\* Series.value_counts().to_dict()
value_counts(col) ==
    [l \in {col[i] : i \in 1..Len(col)} |->
        Cardinality({i \in 1..Len(col) : col[i] = l})]

Column(rows, col) == [i \in 1..Len(rows) |-> rows[i][col]]

\* mutant: the first row is left out of the sum
ColumnSum_SkipFirst(rows, col) == SeqSum(Tail(Column(rows, col)))

\* int(df[col].sum())
ColumnSum(rows, col) == SeqSum(Column(rows, col))

\* the summary of df = pd.DataFrame(aggregates.values()), df not empty
summary_stats(aggregates) ==
    LET df == DictValues(aggregates)
    IN  [total_districts |-> Len(df),
         total_enrolments |-> ColumnSum(df, "total_enrolments"),
         total_demo_updates |-> ColumnSum(df, "total_demo_updates"),
         total_bio_updates |-> ColumnSum(df, "total_bio_updates"),
         avg_identity_volatility |->
             round(mean(Column(df, "identity_volatility")), 10000),
         avg_adult_bio_compliance |->
             round(mean(Column(df, "adult_bio_compliance")), 100),
         typology_distribution |-> value_counts(Column(df, "district_typology"))]

(***************************************************************************)
(* The request handlers.                                                   *)
(***************************************************************************)
Unknown == <<"U", "n", "k", "n", "o", "w", "n">>

\* the response of get_district_data for a region found in the table
\* (the handlers add its 'time_series' entry)
FoundResponse(data) ==
    [status |-> 200,
     district |-> data.district,
     state |-> data.state,
     total_enrolments |-> data.total_enrolments,
     enrol_0_5 |-> data.enrol_0_5,
     enrol_5_17 |-> data.enrol_5_17,
     enrol_18_plus |-> data.enrol_18_plus,
     adult_enrolment_share |-> round(data.adult_enrolment_share, 100),
     child_enrolment_share |-> round(data.child_enrolment_share, 100),
     total_demo_updates |-> data.total_demo_updates,
     demo_5_17 |-> data.demo_5_17,
     demo_18_plus |-> data.demo_18_plus,
     total_bio_updates |-> data.total_bio_updates,
     bio_5_17 |-> data.bio_5_17,
     bio_18_plus |-> data.bio_18_plus,
     identity_volatility |-> round(data.identity_volatility, 10000),
     adult_bio_compliance |-> round(min100(data.adult_bio_compliance), 100),
     child_bio_compliance |-> round(min100(data.child_bio_compliance), 100),
     lifecycle_integrity |-> round(data.lifecycle_integrity, 10000),
     maintenance_imbalance |-> round(data.maintenance_imbalance, 10000),
     district_typology |-> data.district_typology]

\* "Return empty data for unknown districts"
UnknownResponse(district_name) ==
    [status |-> 200,
     district |-> district_name,
     state |-> Unknown,
     total_enrolments |-> 0,
     enrol_0_5 |-> 0,
     enrol_5_17 |-> 0,
     enrol_18_plus |-> 0,
     adult_enrolment_share |-> Frac(0, 1),
     child_enrolment_share |-> Frac(0, 1),
     total_demo_updates |-> 0,
     demo_5_17 |-> 0,
     demo_18_plus |-> 0,
     total_bio_updates |-> 0,
     bio_5_17 |-> 0,
     bio_18_plus |-> 0,
     identity_volatility |-> Frac(0, 1),
     adult_bio_compliance |-> Frac(0, 1),
     child_bio_compliance |-> Frac(0, 1),
     lifecycle_integrity |-> Frac(0, 1),
     maintenance_imbalance |-> Frac(0, 1),
     district_typology |-> "Unknown",
     time_series |-> <<>>]

\* except Exception as e: return jsonify({'error': str(e)}), 500
ErrorResponse == [status |-> 500]

\* mutant: the requested name is not case-folded
DistrictKey_NoLower(district_name) == strip(district_name)

\* district_name.lower().strip()
DistrictKey(district_name) == strip(lower(district_name))

\* main.py, and interface/main.py without USE_PRECOMPUTED: aggregates.get(key)
LiveLookup(aggregates, district_name) ==
    IF DistrictKey(district_name) \in DictKeys(aggregates)
    THEN FoundResponse(DictGet(aggregates, DistrictKey(district_name)))
    ELSE UnknownResponse(district_name)

\* does the stored key match the requested one (interface/main.py, precomputed)
KeyMatches(key, district_key) ==
    \/ HasBar(key) /\ strip(lower(split(key)[2])) = district_key
    \/ strip(lower(key)) = district_key

\* interface/main.py with USE_PRECOMPUTED: the first stored key that matches
PrecomputedLookup(aggregates, district_name) ==
    LET district_key == DistrictKey(district_name)
        hits == {i \in 1..Len(aggregates) : KeyMatches(aggregates[i][1], district_key)}
    IN  IF hits = {} THEN UnknownResponse(district_name)
        ELSE FoundResponse(aggregates[CHOOSE i \in hits : \A j \in hits : i <= j][2])

(***************************************************************************)
(* State.                                                                  *)
(***************************************************************************)
VARIABLES
    enrolment_df,      \* the rows under datasets/api_data_aadhar_enrolment
    demographic_df,    \* the rows under datasets/api_data_aadhar_demographic
    biometric_df,      \* the rows under datasets/api_data_aadhar_biometric
    static_data,       \* the json files under static/data: <<>> when absent,
                       \* <<aggregates, time_series, summary>> when written
    app,               \* "none", "main" (src/main.py) or "interface"
    USE_PRECOMPUTED,   \* interface/main.py: the json file existed at import
    datasets_cached,   \* lru_cache of load_datasets holds a value
    aggregates_cache,  \* lru_cache of compute_district_aggregates: <<>> when
                       \* empty, <<aggregates>> when it holds the dictionary
    request,           \* the last request: <<route, argument>>
    response,          \* its response
    time_series_cache, \* lru_cache of compute_time_series_data, likewise
    counts,            \* derived-metrics specifications: the count columns
    metrics,           \* derived-metrics specifications: the computed row(s)
    units,             \* loader specification: the source units of a collection
    loaded,            \* loader specification: <<>>, or <<the collection loaded>>
    stack,             \* cache specification: the call stack of each thread
    lru,               \* cache specification: what each lru_cache holds
    calls              \* cache specification: executions of each function body

loadVars == <<units, loaded>>

cacheVars == <<stack, lru, calls>>

vars == <<enrolment_df, demographic_df, biometric_df, static_data, app,
          USE_PRECOMPUTED, datasets_cached, aggregates_cache, request,
          response, time_series_cache, counts, metrics, loadVars, cacheVars>>

\* the variables of the other specifications, at rest
LoaderIdle == units = <<>> /\ loaded = <<>>

CacheIdle == stack = <<>> /\ lru = <<>> /\ calls = <<>>

NoRequest == <<"none", <<>>>>

NoResponse == [status |-> 0]

\* the names a client asks for: every district as stored, padded, in upper and
\* in lower case, every "state|district", and a name of no region
Pad(d) == <<" ">> \o d \o <<" ">>

QueryNames ==
    UNION {{k[2], Pad(k[2]), upper(k[2]), lower(k[2]), CompositeKey(k[1], k[2])} :
              k \in Regions}
    \cup {<<"z">>}

Init ==
    /\ \E n \in 0..MaxRows, m \in 0..MaxRows :
          /\ n + m <= MaxRows
          /\ enrolment_df \in Frames(EnrolmentRows, n)
          /\ demographic_df \in Frames(DemographicRows, m)
          /\ biometric_df \in Frames(BiometricRows, MaxRows - n - m)
          /\ Cardinality(enrolment_df) = n
          /\ Cardinality(demographic_df) = m
    /\ static_data = <<>>
    /\ app = "none"
    /\ USE_PRECOMPUTED = FALSE
    /\ datasets_cached = FALSE
    /\ aggregates_cache = <<>>
    /\ request = NoRequest
    /\ response = NoResponse
    /\ time_series_cache = <<>>
    /\ counts = <<>>
    /\ metrics = <<>>
    /\ LoaderIdle
    /\ CacheIdle

\* one of the three groupby calls raises KeyError
AggregationRaises ==
    \/ GroupByRaises(enrolment_df)
    \/ GroupByRaises(demographic_df)
    \/ GroupByRaises(biometric_df)

\* precompute_data.py run before deployment: writes the json, or dies with the
\* KeyError and writes nothing
compute_and_save_aggregates ==
    /\ app = "none"
    /\ static_data = <<>>
    /\ static_data' =
          IF AggregationRaises THEN <<>>
          ELSE LET aggregates ==
                       PrecomputeDict(<<>>, PrecomputeTable(enrolment_df,
                                                            demographic_df,
                                                            biometric_df))
               IN  <<aggregates,
                     PrecomputeTimeSeries(enrolment_df, demographic_df,
                                          biometric_df),
                     summary_stats(aggregates)>>
    /\ request' = <<"precompute", <<>>>>
    /\ UNCHANGED <<enrolment_df, demographic_df, biometric_df, app,
                   USE_PRECOMPUTED, datasets_cached, aggregates_cache, response,
                   counts, metrics,
                   time_series_cache, loadVars, cacheVars>>

\* the server process of src/main.py starts (module import)
StartMain ==
    /\ app = "none"
    /\ app' = "main"
    /\ USE_PRECOMPUTED' = FALSE
    /\ UNCHANGED <<enrolment_df, demographic_df, biometric_df, static_data,
                   datasets_cached, aggregates_cache, request, response,
                   counts, metrics,
                   time_series_cache, loadVars, cacheVars>>

\* the server process of src/interface/main.py starts:
\* USE_PRECOMPUTED = os.path.exists(.../district_aggregates.json)
StartInterface ==
    /\ app = "none"
    /\ app' = "interface"
    /\ USE_PRECOMPUTED' = (static_data # <<>>)
    /\ UNCHANGED <<enrolment_df, demographic_df, biometric_df, static_data,
                   datasets_cached, aggregates_cache, request, response,
                   counts, metrics,
                   time_series_cache, loadVars, cacheVars>>

\* the value compute_district_aggregates() returns when it does not raise
compute_district_aggregates ==
    IF aggregates_cache # <<>> THEN aggregates_cache[1]
    ELSE IF USE_PRECOMPUTED THEN static_data[1]
    ELSE LiveDict(<<>>, LiveTable(enrolment_df, demographic_df, biometric_df))

\* compute_district_aggregates() raises: nothing is cached, the live path
\* meets a frame without columns
ComputeRaises ==
    aggregates_cache = <<>> /\ ~USE_PRECOMPUTED /\ AggregationRaises

\* what a call of compute_district_aggregates leaves in the two caches
CallCompute ==
    /\ datasets_cached' = (datasets_cached \/ (aggregates_cache = <<>> /\ ~USE_PRECOMPUTED))
    /\ aggregates_cache' =
          IF ComputeRaises THEN <<>>
          ELSE IF aggregates_cache # <<>> THEN aggregates_cache
          ELSE <<compute_district_aggregates>>

\* the value compute_time_series_data() returns (its frames have columns
\* wherever a handler reaches the call)
compute_time_series_data ==
    IF time_series_cache # <<>> THEN time_series_cache[1]
    ELSE LiveTimeSeries(enrolment_df, demographic_df, biometric_df)

\* aggregates.get(district_key) finds a region
LiveMatch(aggregates, district_name) ==
    DistrictKey(district_name) \in DictKeys(aggregates)

\* the scan of interface/main.py finds a region
PrecomputedMatch(aggregates, district_name) ==
    \E i \in 1..Len(aggregates) :
        KeyMatches(aggregates[i][1], DistrictKey(district_name))

\* time_series.get(district_key, {}) / all_ts.get(district_key.lower().strip(), {})
LiveSeriesLookup(all_ts, district_key) ==
    IF strip(lower(district_key)) \in DictKeys(all_ts)
    THEN DictGet(all_ts, strip(lower(district_key)))
    ELSE <<>>

\* get_time_series_for_district with USE_PRECOMPUTED
PrecomputedSeriesLookup(all_ts, district_key) ==
    LET hits == {i \in 1..Len(all_ts) :
                    /\ HasBar(all_ts[i][1])
                    /\ strip(lower(split(all_ts[i][1])[2]))
                           = strip(lower(district_key))}
    IN  IF district_key \in DictKeys(all_ts) THEN DictGet(all_ts, district_key)
        ELSE IF strip(lower(district_key)) \in DictKeys(all_ts)
        THEN DictGet(all_ts, strip(lower(district_key)))
        ELSE IF hits # {}
        THEN all_ts[CHOOSE i \in hits : \A j \in hits : i <= j][2]
        ELSE <<>>

\* GET /api/district/<district_name> of main.py: both memoized functions are
\* called before the lookup
MainDistrictData(district_name) ==
    LET aggregates == compute_district_aggregates
        time_series == compute_time_series_data
    IN  /\ app = "main"
        /\ CallCompute
        /\ time_series_cache' =
              IF ComputeRaises THEN time_series_cache ELSE <<time_series>>
        /\ response' =
              IF ComputeRaises THEN ErrorResponse
              ELSE IF LiveMatch(aggregates, district_name)
              THEN LiveLookup(aggregates, district_name)
                   @@ [time_series |->
                          LiveSeriesLookup(time_series, DistrictKey(district_name))]
              ELSE LiveLookup(aggregates, district_name)

\* GET /api/district/<district_name> of interface/main.py: the time series
\* is fetched once a region is found
InterfaceDistrictData(district_name) ==
    LET aggregates == compute_district_aggregates
        time_series == compute_time_series_data
    IN  /\ app = "interface"
        /\ CallCompute
        /\ time_series_cache' =
              IF /\ ~ComputeRaises
                 /\ ~USE_PRECOMPUTED
                 /\ LiveMatch(aggregates, district_name)
              THEN <<time_series>>
              ELSE time_series_cache
        /\ response' =
              IF ComputeRaises THEN ErrorResponse
              ELSE IF USE_PRECOMPUTED
              THEN IF PrecomputedMatch(aggregates, district_name)
                   THEN PrecomputedLookup(aggregates, district_name)
                        @@ [time_series |->
                               PrecomputedSeriesLookup(static_data[2],
                                                       DistrictKey(district_name))]
                   ELSE PrecomputedLookup(aggregates, district_name)
              ELSE IF LiveMatch(aggregates, district_name)
              THEN LiveLookup(aggregates, district_name)
                   @@ [time_series |->
                          LiveSeriesLookup(time_series, DistrictKey(district_name))]
              ELSE LiveLookup(aggregates, district_name)

\* GET /api/district/<district_name>
get_district_data(district_name) ==
    /\ MainDistrictData(district_name) \/ InterfaceDistrictData(district_name)
    /\ request' = <<"district", district_name>>
    /\ UNCHANGED <<enrolment_df, demographic_df, biometric_df, static_data, app,
                   USE_PRECOMPUTED, counts, metrics, loadVars, cacheVars>>

\* GET /api/districts/all
get_all_districts ==
    /\ app # "none"
    /\ CallCompute
    /\ request' = <<"all", <<>>>>
    /\ response' =
          IF ComputeRaises THEN ErrorResponse
          ELSE [status |-> 200, aggregates |-> compute_district_aggregates]
    /\ UNCHANGED <<enrolment_df, demographic_df, biometric_df, static_data, app,
                   USE_PRECOMPUTED, counts, metrics,
                   time_series_cache, loadVars, cacheVars>>

\* GET /api/stats/summary: the stored summary with USE_PRECOMPUTED, else the
\* summary of the cached dictionary
get_summary_stats ==
    /\ app # "none"
    /\ request' = <<"summary", <<>>>>
    /\ IF USE_PRECOMPUTED
       THEN /\ response' = [status |-> 200, summary |-> static_data[3]]
            /\ UNCHANGED <<datasets_cached, aggregates_cache>>
       ELSE /\ CallCompute
            /\ response' =
                  IF ComputeRaises THEN ErrorResponse
                  ELSE [status |-> 200,
                        summary |-> summary_stats(compute_district_aggregates)]
    /\ UNCHANGED <<enrolment_df, demographic_df, biometric_df, static_data, app,
                   USE_PRECOMPUTED, time_series_cache, counts, metrics,
                   loadVars, cacheVars>>

Next ==
    \/ compute_and_save_aggregates
    \/ StartMain
    \/ StartInterface
    \/ \E district_name \in QueryNames : get_district_data(district_name)
    \/ get_all_districts
    \/ get_summary_stats

Spec == Init /\ [][Next]_vars

(***************************************************************************)
(* The same program on raw collections whose events fall on several days,  *)
(* in several months and years, one of them with a date in another format. *)
(***************************************************************************)
EnrolRow(state, district, date, a, b, c) ==
    [state |-> state, district |-> district, date |-> date,
     age_0_5 |-> a, age_5_17 |-> b, age_18_greater |-> c]

SeriesEnrolmentRows ==
    {EnrolRow(MH, Pune, d, 0, 0, MaxCount) : d \in {Jan15, Jan20, Mar01, IsoDate}}
    \cup {EnrolRow(MH, Pune, Jan15, MaxCount, 0, 0)}
    \cup {EnrolRow(UP, Pune, d, 0, MaxCount, 0) : d \in {Jan15, Mar01, Dec05}}

\* Agra has demographic and biometric events and no enrolment
SeriesDemographicRows ==
    {[state |-> MH, district |-> Pune, date |-> d,
      demo_age_5_17 |-> 0, demo_age_17_ |-> MaxCount] : d \in {Jan15, Dec05}}
    \cup {[state |-> MH, district |-> Agra, date |-> d,
           demo_age_5_17 |-> MaxCount, demo_age_17_ |-> 0] : d \in {Jan15, IsoDate}}

SeriesBiometricRows ==
    {[state |-> MH, district |-> Pune, date |-> d,
      bio_age_5_17 |-> 0, bio_age_17_ |-> MaxCount] : d \in {Jan15, Mar01}}
    \cup {[state |-> MH, district |-> Agra, date |-> Jan15,
           bio_age_5_17 |-> MaxCount, bio_age_17_ |-> 0]}

InitSeries ==
    /\ \E n \in 0..MaxRows, m \in 0..MaxRows :
          /\ n + m <= MaxRows
          /\ enrolment_df \in Frames(SeriesEnrolmentRows, n)
          /\ demographic_df \in Frames(SeriesDemographicRows, m)
          /\ biometric_df \in Frames(SeriesBiometricRows, MaxRows - n - m)
          /\ Cardinality(enrolment_df) = n
          /\ Cardinality(demographic_df) = m
    /\ static_data = <<>>
    /\ app = "none"
    /\ USE_PRECOMPUTED = FALSE
    /\ datasets_cached = FALSE
    /\ aggregates_cache = <<>>
    /\ request = NoRequest
    /\ response = NoResponse
    /\ time_series_cache = <<>>
    /\ counts = <<>>
    /\ metrics = <<>>
    /\ LoaderIdle
    /\ CacheIdle

SpecSeries == InitSeries /\ [][Next]_vars

(***************************************************************************)
(* The Derived Metrics Engine and the absolute classifier on their own:    *)
(* the count columns of one merged row are drawn from bounded sets.        *)
(***************************************************************************)
\* the example of the specification: brackets 100 / 200 / 700
EnrolBrackets == (0..MaxBracket) \cup {100, 200, 700}

UpdateBrackets == 0..MaxBracket

InitMetrics ==
    /\ \E a \in EnrolBrackets, b \in EnrolBrackets, c \in EnrolBrackets,
          d1 \in UpdateBrackets, d2 \in UpdateBrackets,
          b1 \in UpdateBrackets, b2 \in UpdateBrackets :
          counts = [state |-> MH, district |-> Pune,
                    enrol_0_5 |-> a, enrol_5_17 |-> b, enrol_18_plus |-> c,
                    total_enrolments |-> EnrolTotal(a, b, c),
                    demo_5_17 |-> d1, demo_18_plus |-> d2,
                    total_demo_updates |-> UpdateTotal(d1, d2),
                    bio_5_17 |-> b1, bio_18_plus |-> b2,
                    total_bio_updates |-> UpdateTotal(b1, b2)]
    /\ metrics = <<>>
    /\ enrolment_df = {}
    /\ demographic_df = {}
    /\ biometric_df = {}
    /\ static_data = <<>>
    /\ app = "none"
    /\ USE_PRECOMPUTED = FALSE
    /\ datasets_cached = FALSE
    /\ aggregates_cache = <<>>
    /\ request = NoRequest
    /\ response = NoResponse
    /\ time_series_cache = <<>>
    /\ LoaderIdle
    /\ CacheIdle

\* main.py lines 148-165 on the row
DeriveLive ==
    /\ metrics = <<>>
    /\ metrics' = <<"live", counts @@ LiveMetrics(counts)>>
    /\ UNCHANGED <<enrolment_df, demographic_df, biometric_df, static_data, app,
                   USE_PRECOMPUTED, datasets_cached, aggregates_cache, request,
                   response, counts,
                   time_series_cache, loadVars, cacheVars>>

\* precompute_data.py lines 81-105 on the row
DerivePrecompute ==
    /\ metrics = <<>>
    /\ metrics' =
          LET m == counts @@ PrecomputeMetrics(counts)
          IN  <<"precompute", m @@ [district_typology |-> classify_typology(m)]>>
    /\ UNCHANGED <<enrolment_df, demographic_df, biometric_df, static_data, app,
                   USE_PRECOMPUTED, datasets_cached, aggregates_cache, request,
                   response, counts,
                   time_series_cache, loadVars, cacheVars>>

NextMetrics == DeriveLive \/ DerivePrecompute

SpecMetrics == InitMetrics /\ [][NextMetrics]_vars

(***************************************************************************)
(* The relative classifier on its own: the count columns of a merged table *)
(* of one to four regions are drawn from bounded sets.                     *)
(***************************************************************************)
\* the regions of the merged table, in the order of the merge
CorpusKeys == <<<<<<"G">>, Agra>>, <<MH, Agra>>, <<MH, Pune>>, <<UP, Pune>>>>

\* a merged row of adults only: c enrolments, d demographic and b biometric
\* updates
CorpusRow(k, c, d, b) ==
    [state |-> k[1], district |-> k[2],
     enrol_0_5 |-> 0, enrol_5_17 |-> 0, enrol_18_plus |-> c,
     total_enrolments |-> EnrolTotal(0, 0, c),
     demo_5_17 |-> 0, demo_18_plus |-> d,
     total_demo_updates |-> UpdateTotal(0, d),
     bio_5_17 |-> 0, bio_18_plus |-> b,
     total_bio_updates |-> UpdateTotal(0, b)]

InitRelative ==
    /\ \E n \in 1..Len(CorpusKeys) :
          \E c \in [1..n -> 0..MaxBracket], d \in [1..n -> 0..MaxCount],
             b \in [1..n -> {0, MaxCount}] :
              counts = [i \in 1..n |-> CorpusRow(CorpusKeys[i], c[i], d[i], b[i])]
    /\ metrics = <<>>
    /\ enrolment_df = {}
    /\ demographic_df = {}
    /\ biometric_df = {}
    /\ static_data = <<>>
    /\ app = "none"
    /\ USE_PRECOMPUTED = FALSE
    /\ datasets_cached = FALSE
    /\ aggregates_cache = <<>>
    /\ request = NoRequest
    /\ response = NoResponse
    /\ time_series_cache = <<>>
    /\ LoaderIdle
    /\ CacheIdle

\* main.py lines 148-187 on the merged table
ClassifyRelative ==
    /\ metrics = <<>>
    /\ metrics' = <<"relative", LiveRows(counts)>>
    /\ UNCHANGED <<enrolment_df, demographic_df, biometric_df, static_data, app,
                   USE_PRECOMPUTED, datasets_cached, aggregates_cache, request,
                   response, time_series_cache, counts, loadVars, cacheVars>>

NextRelative == ClassifyRelative

SpecRelative == InitRelative /\ [][NextRelative]_vars

(***************************************************************************)
(* The loaders on their own: a collection is read from a sequence of       *)
(* source units (csv files of a folder, or URLs). A unit is                *)
(* [ok |-> does reading it succeed, rows |-> the rows it then yields].     *)
(***************************************************************************)
MaxUnits == 3

\* a unit either fails to load or holds no, one or two rows
SourceUnits ==
    {[ok |-> FALSE, rows |-> <<>>]}
    \cup {[ok |-> TRUE, rows |-> r] :
             r \in {<<>>,
                    <<EnrolRow(MH, Pune, Jan15, 0, 0, MaxCount)>>,
                    <<EnrolRow(UP, Pune, Jan20, MaxCount, 0, 0)>>,
                    <<EnrolRow(MH, Pune, Jan15, 0, 0, MaxCount),
                      EnrolRow(UP, Pune, Jan20, MaxCount, 0, 0)>>}}

\* pd.DataFrame(): no columns, no rows
EmptyFrame == [columns |-> FALSE, rows |-> <<>>]

\* load_csv_from_url: the frame read, or pd.DataFrame() when anything raises
load_csv_from_url(unit) ==
    IF unit.ok THEN [columns |-> TRUE, rows |-> unit.rows] ELSE EmptyFrame

\* the list dfs of load_all_csv_files_remote: frames without rows are left out
RECURSIVE RemoteFrames(_)
RemoteFrames(file_list) ==
    IF file_list = <<>> THEN <<>>
    ELSE LET df == load_csv_from_url(Head(file_list))
         IN  (IF df.rows # <<>> THEN <<df>> ELSE <<>>)
             \o RemoteFrames(Tail(file_list))

\* mutant: the loop ends at the first file that cannot be read
RECURSIVE LocalFrames_StopAtFailure(_)
LocalFrames_StopAtFailure(csv_files) ==
    IF csv_files = <<>> \/ ~Head(csv_files).ok THEN <<>>
    ELSE <<[columns |-> TRUE, rows |-> Head(csv_files).rows]>>
         \o LocalFrames_StopAtFailure(Tail(csv_files))

\* the list dfs of load_all_csv_files_local and of load_all_csv_files: every
\* file that pd.read_csv reads
RECURSIVE LocalFrames(_)
LocalFrames(csv_files) ==
    IF csv_files = <<>> THEN <<>>
    ELSE (IF Head(csv_files).ok
          THEN <<[columns |-> TRUE, rows |-> Head(csv_files).rows]>>
          ELSE <<>>)
         \o LocalFrames(Tail(csv_files))

\* pd.concat(dfs, ignore_index=True) of a non-empty list
RECURSIVE concat(_)
concat(dfs) ==
    IF Len(dfs) = 1 THEN Head(dfs)
    ELSE LET rest == concat(Tail(dfs))
         IN  [columns |-> Head(dfs).columns \/ rest.columns,
              rows |-> Head(dfs).rows \o rest.rows]

\* if dfs: return pd.concat(dfs, ignore_index=True); return pd.DataFrame()
Concatenated(dfs) == IF dfs # <<>> THEN concat(dfs) ELSE EmptyFrame

InitLoad ==
    /\ \E n \in 0..MaxUnits : units \in [1..n -> SourceUnits]
    /\ loaded = <<>>
    /\ enrolment_df = {}
    /\ demographic_df = {}
    /\ biometric_df = {}
    /\ static_data = <<>>
    /\ app = "none"
    /\ USE_PRECOMPUTED = FALSE
    /\ datasets_cached = FALSE
    /\ aggregates_cache = <<>>
    /\ request = NoRequest
    /\ response = NoResponse
    /\ time_series_cache = <<>>
    /\ counts = <<>>
    /\ metrics = <<>>
    /\ CacheIdle

\* main.py: the collection is fetched from its URLs
load_all_csv_files_remote ==
    /\ loaded = <<>>
    /\ loaded' = <<"remote", Concatenated(RemoteFrames(units))>>
    /\ UNCHANGED <<enrolment_df, demographic_df, biometric_df, static_data, app,
                   USE_PRECOMPUTED, datasets_cached, aggregates_cache, request,
                   response, time_series_cache, counts, metrics, units,
                   cacheVars>>

\* main.py: the collection is read from the csv files of its folder
load_all_csv_files_local ==
    /\ loaded = <<>>
    /\ loaded' = <<"local", Concatenated(LocalFrames(units))>>
    /\ UNCHANGED <<enrolment_df, demographic_df, biometric_df, static_data, app,
                   USE_PRECOMPUTED, datasets_cached, aggregates_cache, request,
                   response, time_series_cache, counts, metrics, units,
                   cacheVars>>

\* precompute_data.py, and interface/main.py without USE_PRECOMPUTED
load_all_csv_files ==
    /\ loaded = <<>>
    /\ loaded' = <<"folder", Concatenated(LocalFrames(units))>>
    /\ UNCHANGED <<enrolment_df, demographic_df, biometric_df, static_data, app,
                   USE_PRECOMPUTED, datasets_cached, aggregates_cache, request,
                   response, time_series_cache, counts, metrics, units,
                   cacheVars>>

NextLoad ==
    \/ load_all_csv_files_remote
    \/ load_all_csv_files_local
    \/ load_all_csv_files

SpecLoad == InitLoad /\ [][NextLoad]_vars

(***************************************************************************)
(* The memoized functions under concurrent requests (src/main.py served by *)
(* a threaded server). functools.lru_cache looks the key up, calls the     *)
(* function on a miss without holding a lock, and stores the result when   *)
(* the call returns. A frame of a thread's stack is [fn, pc]: pc = 0 is a  *)
(* memoized function before its cache lookup, pc = i >= 1 a body (or a     *)
(* handler) about to make its i-th call.                                   *)
(***************************************************************************)
Threads == {"t1", "t2"}

Memoized == {"load_datasets", "compute_district_aggregates",
             "compute_time_series_data"}

\* the memoized functions a body calls, in the order of the calls
Callees(fn) ==
    CASE fn = "load_datasets" -> <<>>
      [] fn = "compute_district_aggregates" -> <<"load_datasets">>
      [] fn = "compute_time_series_data" -> <<"load_datasets">>
      [] fn = "get_all_districts" -> <<"compute_district_aggregates">>
      [] fn = "get_district_data" -> <<"compute_district_aggregates",
                                      "compute_time_series_data">>
      [] fn = "get_summary_stats" -> <<"compute_district_aggregates">>

Top(t) == stack[t][Len(stack[t])]

\* the variables of the pipeline, which this specification leaves alone
servingVars == <<enrolment_df, demographic_df, biometric_df, static_data, app,
                 USE_PRECOMPUTED, datasets_cached, aggregates_cache, request,
                 response, time_series_cache, counts, metrics>>

Pop(t) == SubSeq(stack[t], 1, Len(stack[t]) - 1)

InitCache ==
    /\ stack = [t \in Threads |-> <<>>]
    /\ lru = [f \in Memoized |-> FALSE]
    /\ calls = [f \in Memoized |-> 0]
    /\ enrolment_df = {}
    /\ demographic_df = {}
    /\ biometric_df = {}
    /\ static_data = <<>>
    /\ app = "main"
    /\ USE_PRECOMPUTED = FALSE
    /\ datasets_cached = FALSE
    /\ aggregates_cache = <<>>
    /\ request = NoRequest
    /\ response = NoResponse
    /\ time_series_cache = <<>>
    /\ counts = <<>>
    /\ metrics = <<>>
    /\ LoaderIdle

\* a request arrives and a thread of the server enters its handler
Arrive(t, handler) ==
    /\ stack[t] = <<>>
    /\ stack' = [stack EXCEPT ![t] = <<[fn |-> handler, pc |-> 1]>>]
    /\ UNCHANGED <<lru, calls, servingVars, loadVars>>

\* the lru_cache wrapper looks the cache up: a hit returns the cached value,
\* a miss enters the body
Lookup(t) ==
    /\ stack[t] # <<>>
    /\ Top(t).fn \in Memoized
    /\ Top(t).pc = 0
    /\ IF lru[Top(t).fn]
       THEN /\ stack' = [stack EXCEPT ![t] = Pop(t)]
            /\ UNCHANGED calls
       ELSE /\ stack' = [stack EXCEPT ![t] = Pop(t) \o <<[fn |-> Top(t).fn, pc |-> 1]>>]
            /\ calls' = [calls EXCEPT ![Top(t).fn] = @ + 1]
    /\ UNCHANGED <<lru, servingVars, loadVars>>

\* a handler or a body makes its next call of a memoized function
CallNext(t) ==
    /\ stack[t] # <<>>
    /\ Top(t).pc >= 1
    /\ Top(t).pc <= Len(Callees(Top(t).fn))
    /\ stack' = [stack EXCEPT ![t] =
                    Pop(t) \o <<[fn |-> Top(t).fn, pc |-> Top(t).pc + 1],
                                [fn |-> Callees(Top(t).fn)[Top(t).pc], pc |-> 0]>>]
    /\ UNCHANGED <<lru, calls, servingVars, loadVars>>

\* a body returns and the wrapper stores its result; a handler responds
Return(t) ==
    /\ stack[t] # <<>>
    /\ Top(t).pc > Len(Callees(Top(t).fn))
    /\ stack' = [stack EXCEPT ![t] = Pop(t)]
    /\ lru' = IF Top(t).fn \in Memoized THEN [lru EXCEPT ![Top(t).fn] = TRUE]
              ELSE lru
    /\ UNCHANGED <<calls, servingVars, loadVars>>

NextCache ==
    \E t \in Threads :
        \/ \E handler \in {"get_all_districts", "get_district_data",
                          "get_summary_stats"} : Arrive(t, handler)
        \/ Lookup(t)
        \/ CallNext(t)
        \/ Return(t)

SpecCache == InitCache /\ [][NextCache]_vars

(***************************************************************************)
(* Claims.                                                                 *)
(***************************************************************************)

\* C1: after one aggregation pass the mapping returned by
\* get_all_region_aggregates holds exactly one RegionAggregate for each
\* distinct (state, district) pair of the three raw collections: none is
\* missing and no two pairs share an entry.
C1_OnePerRegion ==
    (request[1] = "all" /\ response.status = 200) =>
        LET values == DictValues(response.aggregates)
            raw == GroupKeys(enrolment_df) \cup GroupKeys(demographic_df)
                       \cup GroupKeys(biometric_df)
        IN  /\ {<<values[i].state, values[i].district>> : i \in 1..Len(values)} = raw
            /\ Len(values) = Cardinality(raw)

\* C2: region-key lookup is case- and whitespace-insensitive: a request for a
\* district of the table written padded with blanks, in upper case or in
\* lower case finds a region, the one the request for the stored name finds.
C2_CaseAndBlankInsensitive ==
    (request[1] = "district" /\ response.status = 200) =>
        LET table == aggregates_cache[1]
            values == DictValues(table)
            Aggregate(r) == [x \in (DOMAIN r) \ {"time_series"} |-> r[x]]
            Resolve(name) == IF USE_PRECOMPUTED THEN PrecomputedLookup(table, name)
                             ELSE LiveLookup(table, name)
        IN  \A i \in 1..Len(values) :
                LET d == values[i].district
                IN  request[2] \in {d, Pad(d), upper(d), lower(d)} =>
                        /\ response.state # Unknown
                        /\ response.district \in {values[j].district : j \in 1..Len(values)}
                        /\ Aggregate(response) = Aggregate(Resolve(d))

\* C2: a district asked for in upper case was found.
C2_Witness ==
    /\ request = <<"district", upper(Pune)>>
    /\ response.status = 200
    /\ response.state # Unknown
    /\ response.district = Pune

\* C3: for every region of the aggregate table, get_region given the bare
\* district name and get_region given "state|district" both resolve to that
\* region's RegionAggregate, in every serving path.
C3_BareAndComposite ==
    (request[1] = "district" /\ response.status = 200) =>
        LET values == DictValues(aggregates_cache[1])
        IN  \A i \in 1..Len(values) :
                request[2] \in {values[i].district,
                                CompositeKey(values[i].state, values[i].district)} =>
                    /\ response.state = values[i].state
                    /\ response.district = values[i].district

\* C4: a request for a key that matches no region gets the fixed unknown
\* result (state 'Unknown', counts and metrics 0, typology 'Unknown', empty
\* time series), whatever the raw collections are, and never an error response.
C4_MissIsUnknown ==
    request = <<"district", <<"z">>>> => response = UnknownResponse(<<"z">>)

C6_OuterJoinFill ==
    LET E == GroupKeys(enrolment_df)
        D == GroupKeys(demographic_df)
        B == GroupKeys(biometric_df)
        NoEnrol(v) == v.enrol_0_5 = 0 /\ v.enrol_5_17 = 0 /\ v.enrol_18_plus = 0
                          /\ v.total_enrolments = 0
        NoDemo(v) == v.demo_5_17 = 0 /\ v.demo_18_plus = 0
                         /\ v.total_demo_updates = 0
        NoBio(v) == v.bio_5_17 = 0 /\ v.bio_18_plus = 0 /\ v.total_bio_updates = 0
        Fill(v) ==
            LET k == <<v.state, v.district>>
            IN  /\ k \notin E => NoEnrol(v)
                /\ k \notin D => NoDemo(v)
                /\ k \notin B => NoBio(v)
    IN  /\ static_data # <<>> =>
              \A k \in E \cup D \cup B :
                  \E i \in 1..Len(static_data[1]) :
                      /\ static_data[1][i][2].state = k[1]
                      /\ static_data[1][i][2].district = k[2]
                      /\ Fill(static_data[1][i][2])
        /\ (aggregates_cache # <<>> /\ ~USE_PRECOMPUTED) =>
              /\ \A i \in 1..Len(aggregates_cache[1]) : Fill(aggregates_cache[1][i][2])
              /\ \A k \in E \cup D \cup B :
                     DistrictKey(k[2]) \in DictKeys(aggregates_cache[1])

\* C6: the precomputed table holds a region that has enrolment events only.
C6_Witness ==
    /\ static_data # <<>>
    /\ \E i \in 1..Len(static_data[1]) :
          LET v == static_data[1][i][2]
          IN  /\ <<v.state, v.district>> \in GroupKeys(enrolment_df)
              /\ <<v.state, v.district>> \notin GroupKeys(demographic_df)
              /\ <<v.state, v.district>> \notin GroupKeys(biometric_df)
              /\ v.total_enrolments > 0
              /\ v.total_demo_updates = 0
              /\ v.total_bio_updates = 0

\* C7: a region with total_enrolments = 0 has adult_enrolment_share and
\* child_enrolment_share exactly 0, and their denominator is 1, not 0, so
\* the division raises no error.
C7_SharesOfEmptyRegion ==
    (metrics # <<>> /\ metrics[2].total_enrolments = 0) =>
        /\ metrics[2].adult_enrolment_share = Frac(0, 1)
        /\ metrics[2].child_enrolment_share = Frac(0, 1)

\* C7: the shares of a region with updates and no enrolment were computed.
C7_Witness ==
    /\ metrics # <<>>
    /\ metrics[2].total_enrolments = 0
    /\ metrics[2].total_demo_updates > 0
    /\ metrics[2].adult_enrolment_share[1] = 0

\* C8 as claimed: with total_enrolments = 0 all seven derived ratios are 0,
\* for any demographic and biometric counts, in both metric variants.
C8_AllRatiosZero ==
    (metrics # <<>> /\ metrics[2].total_enrolments = 0) =>
        /\ FracIsZero(metrics[2].adult_enrolment_share)
        /\ FracIsZero(metrics[2].child_enrolment_share)
        /\ FracIsZero(metrics[2].identity_volatility)
        /\ FracIsZero(metrics[2].adult_bio_compliance)
        /\ FracIsZero(metrics[2].child_bio_compliance)
        /\ FracIsZero(metrics[2].lifecycle_integrity)
        /\ FracIsZero(metrics[2].maintenance_imbalance)

\* C8 as amended: with total_enrolments = 0 the two enrolment shares are 0 and
\* the other ratios divide by 1: identity_volatility = total_demo_updates,
\* adult_bio_compliance = bio_18_plus * 100, child_bio_compliance =
\* bio_5_17 * 100; all seven ratios are 0 when the region has no demographic
\* and no biometric update either, in both metric variants.
C8_RatiosOfEmptyRegion ==
    (metrics # <<>> /\ metrics[2].total_enrolments = 0) =>
        LET r == metrics[2]
        IN  /\ FracIsZero(r.adult_enrolment_share)
            /\ FracIsZero(r.child_enrolment_share)
            /\ r.identity_volatility = Frac(r.total_demo_updates, 1)
            /\ r.adult_bio_compliance = Frac(r.bio_18_plus * 100, 1)
            /\ r.child_bio_compliance = Frac(r.bio_5_17 * 100, 1)
            /\ (r.total_demo_updates = 0 /\ r.total_bio_updates = 0) =>
                   /\ FracIsZero(r.identity_volatility)
                   /\ FracIsZero(r.adult_bio_compliance)
                   /\ FracIsZero(r.child_bio_compliance)
                   /\ FracIsZero(r.lifecycle_integrity)
                   /\ FracIsZero(r.maintenance_imbalance)

\* C8: the ratios of a region with demographic updates and no enrolment were
\* computed, and its volatility is not 0.
C8_Witness ==
    /\ metrics # <<>>
    /\ metrics[2].total_enrolments = 0
    /\ metrics[2].total_demo_updates = 2
    /\ metrics[2].identity_volatility = Frac(2, 1)

\* C9: the derived metrics equal the reference formulas with a denominator of
\* 0 replaced by 1; brackets 100 / 200 / 700 give total 1000, adult share 70
\* and child share 30.
C9_ReferenceFormulas ==
    metrics # <<>> =>
        LET r == metrics[2]
            Den(x) == IF x = 0 THEN 1 ELSE x
            Is(m, num, den) == m[2] > 0 /\ m[1] * den = num * m[2]
        IN  /\ Is(r.adult_enrolment_share, r.enrol_18_plus * 100, Den(r.total_enrolments))
            /\ Is(r.child_enrolment_share, (r.enrol_0_5 + r.enrol_5_17) * 100,
                  Den(r.total_enrolments))
            /\ Is(r.identity_volatility, r.total_demo_updates, Den(r.total_enrolments))
            /\ Is(r.adult_bio_compliance, r.bio_18_plus * 100, Den(r.enrol_18_plus))
            /\ Is(r.child_bio_compliance, r.bio_5_17 * 100,
                  Den(r.enrol_5_17 + r.enrol_0_5))
            /\ (r.enrol_0_5 = 100 /\ r.enrol_5_17 = 200 /\ r.enrol_18_plus = 700) =>
                   /\ r.total_enrolments = 1000
                   /\ FracEq(r.adult_enrolment_share, Frac(70, 1))
                   /\ FracEq(r.child_enrolment_share, Frac(30, 1))

\* C9: the metrics of the region with brackets 100 / 200 / 700 and one biometric
\* update of a child were computed.
C9_Witness ==
    /\ metrics # <<>>
    /\ metrics[2].enrol_0_5 = 100
    /\ metrics[2].enrol_5_17 = 200
    /\ metrics[2].enrol_18_plus = 700
    /\ metrics[2].bio_5_17 = 1
    /\ metrics[2].child_bio_compliance = Frac(100, 300)

\* C10: the absolute policy gives each region exactly one label, the first
\* that matches in the order No Data (total_enrolments = 0), Adult-Heavy
\* (adult_enrolment_share > 70), Child-Heavy (child_enrolment_share > 50),
\* High-Churn (identity_volatility > 0.5), Well-Maintained
\* (lifecycle_integrity > 50), Standard; it depends on the region's own
\* fields only.
C10_AbsolutePolicy ==
    (metrics # <<>> /\ metrics[1] = "precompute") =>
        LET r == metrics[2]
            t == r.district_typology
            adult == r.adult_enrolment_share[1] > 70 * r.adult_enrolment_share[2]
            child == r.child_enrolment_share[1] > 50 * r.child_enrolment_share[2]
            churn == 2 * r.identity_volatility[1] > r.identity_volatility[2]
            kept == r.lifecycle_integrity[1] > 50 * r.lifecycle_integrity[2]
        IN  /\ t \in {"No Data", "Adult-Heavy", "Child-Heavy", "High-Churn",
                      "Well-Maintained", "Standard"}
            /\ (t = "No Data") <=> (r.total_enrolments = 0)
            /\ (t = "Adult-Heavy") <=> (r.total_enrolments # 0 /\ adult)
            /\ (t = "Child-Heavy") <=> (r.total_enrolments # 0 /\ ~adult /\ child)
            /\ (t = "High-Churn") <=>
                   (r.total_enrolments # 0 /\ ~adult /\ ~child /\ churn)
            /\ (t = "Well-Maintained") <=>
                   (r.total_enrolments # 0 /\ ~adult /\ ~child /\ ~churn /\ kept)
            /\ (t = "Standard") <=>
                   (r.total_enrolments # 0 /\ ~adult /\ ~child /\ ~churn /\ ~kept)

\* C10: a region with an adult share of exactly 70 was labelled Standard.
C10_Witness ==
    /\ metrics # <<>>
    /\ metrics[1] = "precompute"
    /\ metrics[2].enrol_18_plus = 700
    /\ metrics[2].total_enrolments = 1000
    /\ metrics[2].district_typology = "Standard"

\* C11: the relative policy gives every row of the merged table one of the
\* five labels, the first that matches in this order: volatility and enrolment
\* both below their medians -> Stable & Saturated; volatility at or above its
\* median -> Volatile; enrolment at or above its median -> Growth-focused;
\* adult_bio_compliance below 50 -> Under-maintained; otherwise Balanced. The
\* medians are those of total_enrolments and identity_volatility over all
\* rows of the table (the middle value, or the mean of the two middle values).
C11_RelativePolicy ==
    (metrics # <<>> /\ metrics[1] = "relative") =>
        LET rows == metrics[2]
            n == Len(rows)
            Below(col, x) == Cardinality({i \in 1..n : FracLess(col[i], x)})
            UpTo(col, x) == Cardinality({i \in 1..n : ~FracLess(x, col[i])})
            Kth(col, k) == col[CHOOSE i \in 1..n :
                                  Below(col, col[i]) < k /\ k <= UpTo(col, col[i])]
            IsMedian(col, x) ==
                IF n % 2 = 1 THEN FracEq(x, Kth(col, (n + 1) \div 2))
                ELSE LET lo == Kth(col, n \div 2)
                         hi == Kth(col, n \div 2 + 1)
                     IN  x[1] * 2 * lo[2] * hi[2]
                             = (lo[1] * hi[2] + hi[1] * lo[2]) * x[2]
            enrolments == [i \in 1..n |-> Frac(rows[i].total_enrolments, 1)]
            volatilities == [i \in 1..n |-> rows[i].identity_volatility]
            median_enrolment ==
                CHOOSE x \in {Frac(a, 2) : a \in 0..(2 * MaxBracket)} :
                    IsMedian(enrolments, x)
            median_volatility ==
                CHOOSE x \in {Frac(a, 2 * b) : a \in 0..(2 * MaxCount * MaxBracket),
                                               b \in 1..(MaxBracket * MaxBracket)} :
                    IsMedian(volatilities, x)
            Label(r) ==
                IF FracLess(r.identity_volatility, median_volatility)
                   /\ r.total_enrolments * median_enrolment[2] < median_enrolment[1]
                THEN "Stable & Saturated"
                ELSE IF ~FracLess(r.identity_volatility, median_volatility)
                THEN "Volatile"
                ELSE IF r.total_enrolments * median_enrolment[2] >= median_enrolment[1]
                THEN "Growth-focused"
                ELSE IF FracLess(r.adult_bio_compliance, Frac(50, 1))
                THEN "Under-maintained"
                ELSE "Balanced"
        IN  /\ n = Len(counts)
            /\ \A i \in 1..n :
                  /\ rows[i].district_typology = Label(rows[i])
                  /\ rows[i].district_typology \in
                        {"Stable & Saturated", "Volatile", "Growth-focused",
                         "Under-maintained", "Balanced"}

\* C11: a table of four regions was classified and holds a Stable & Saturated,
\* a Growth-focused and a Volatile region.
C11_Witness ==
    /\ metrics # <<>>
    /\ metrics[1] = "relative"
    /\ Len(metrics[2]) = 4
    /\ {"Stable & Saturated", "Growth-focused", "Volatile"}
           \subseteq {metrics[2][i].district_typology : i \in 1..4}

\* C12: in the CorpusSummary, total_enrolments, total_demo_updates and
\* total_bio_updates are the sums of these fields over the RegionAggregate
\* rows that get_all_region_aggregates returns, and total_districts is the
\* number of those rows.
C12_SummaryTotals ==
    (request[1] = "summary" /\ response.status = 200) =>
        LET rows == DictValues(IF USE_PRECOMPUTED THEN static_data[1]
                               ELSE aggregates_cache[1])
            Units(col) == UNION {{<<i, u>> : u \in 1..rows[i][col]} :
                                    i \in 1..Len(rows)}
        IN  /\ response.summary.total_enrolments
                   = Cardinality(Units("total_enrolments"))
            /\ response.summary.total_demo_updates
                   = Cardinality(Units("total_demo_updates"))
            /\ response.summary.total_bio_updates
                   = Cardinality(Units("total_bio_updates"))
            /\ response.summary.total_districts = Len(rows)

\* C12: the stored summary of three regions with two enrolments was served.
C12_Witness ==
    /\ request[1] = "summary"
    /\ response.status = 200
    /\ USE_PRECOMPUTED
    /\ response.summary.total_districts = 3
    /\ response.summary.total_enrolments >= 2
    /\ response.summary.total_demo_updates >= 1

\* C13: in the CorpusSummary the counts of typology_distribution add up to
\* total_districts: each label is counted once for every region that carries
\* it, whenever the table has a region.
C13_TypologyCounts ==
    (request[1] = "summary" /\ response.status = 200) =>
        LET rows == DictValues(IF USE_PRECOMPUTED THEN static_data[1]
                               ELSE aggregates_cache[1])
            dist == response.summary.typology_distribution
        IN  /\ Cardinality(UNION {{<<l, u>> : u \in 1..dist[l]} : l \in DOMAIN dist})
                   = response.summary.total_districts
            /\ \A l \in DOMAIN dist :
                  dist[l] = Cardinality({i \in 1..Len(rows) :
                                            rows[i].district_typology = l})
            /\ \A i \in 1..Len(rows) : rows[i].district_typology \in DOMAIN dist

\* C13: a summary was served in which one label counts two regions.
C13_Witness ==
    /\ request[1] = "summary"
    /\ response.status = 200
    /\ \E l \in DOMAIN response.summary.typology_distribution :
          response.summary.typology_distribution[l] = 2

\* C14: every time series, live or precomputed, has exactly one entry for
\* each calendar month in which the region has an event of that kind, and no
\* other entry (stated for the series whose events all carry a date that
\* parses; an entry labelled with a day counts for the month of that day).
C14_OneEntryPerMonth ==
    LET Frame(kind) == IF kind = "enrolment" THEN enrolment_df
                       ELSE IF kind = "demographic" THEN demographic_df
                       ELSE biometric_df
        MonthsWithEvents(events) ==
            {MonthOf(r.date) : r \in {x \in events : IsDate(x.date)}}
        MonthDenoted(m) == IF IsDate(m) THEN MonthOf(m) ELSE m
        OnePerMonth(months, events) ==
            (\A r \in events : IsDate(r.date)) =>
                /\ {MonthDenoted(months[i]) : i \in 1..Len(months)}
                       = MonthsWithEvents(events)
                /\ Len(months) = Cardinality(MonthsWithEvents(events))
    IN  /\ static_data # <<>> =>
              \A i \in 1..Len(static_data[2]) :
                  LET key == split(static_data[2][i][1])
                      entry == static_data[2][i][2]
                  IN  \A kind \in DOMAIN entry :
                          OnePerMonth(entry[kind].months,
                                      Group(Frame(kind), <<key[1], key[2]>>))
        /\ time_series_cache # <<>> =>
              \A i \in 1..Len(time_series_cache[1]) :
                  LET key == time_series_cache[1][i][1]
                      entry == time_series_cache[1][i][2]
                  IN  \A kind \in DOMAIN entry :
                          OnePerMonth(entry[kind].months,
                                      {r \in Frame(kind) :
                                          strip(lower(r.district)) = key})

\* C15: in every time series, live or precomputed, the entries of 'months'
\* are in strictly ascending chronological order, also across a change of
\* year.
C15_Chronological ==
    LET Dated(m) ==
            \/ IsDate(m)
            \/ LET f == SplitOn(m, "-")
               IN  Len(f) = 2 /\ IsNumber(f[1]) /\ IsNumber(f[2])
        \* days (of 31-day months) since year 0; a month counts as its day 0
        Stamp(m) ==
            LET f == SplitOn(m, "-")
            IN  IF Len(f) = 2
                THEN (NumberValue(f[1]) * 12 + NumberValue(f[2])) * 31
                ELSE (ParseDate(m)[1] * 12 + ParseDate(m)[2]) * 31 + ParseDate(m)[3]
        Ascending(months) ==
            \A i \in 1..Len(months), j \in 1..Len(months) :
                (i < j /\ Dated(months[i]) /\ Dated(months[j])) =>
                    Stamp(months[i]) < Stamp(months[j])
        AllAscending(time_series) ==
            \A i \in 1..Len(time_series) :
                \A kind \in DOMAIN time_series[i][2] :
                    Ascending(time_series[i][2][kind].months)
    IN  /\ static_data # <<>> => AllAscending(static_data[2])
        /\ time_series_cache # <<>> => AllAscending(time_series_cache[1])

\* C16: an event whose date does not parse as day-month-year is in no entry
\* of the live time series: the totals of a district's enrolment series add
\* up to its enrolments on dates that parse.
C16_UnparseableLeftOut ==
    time_series_cache # <<>> =>
        \A i \in 1..Len(time_series_cache[1]) :
            LET key == time_series_cache[1][i][1]
                entry == time_series_cache[1][i][2]
                events == {r \in enrolment_df :
                              strip(lower(r.district)) = key /\ IsDate(r.date)}
            IN  /\ SeqSum(entry.enrolment.total) = GroupValue("enrolment", events)
                /\ \A j \in 1..Len(entry.enrolment.months) :
                      entry.enrolment.months[j] # NaT

\* C17: every percentage in every response is at most 100: the four shares
\* and compliances of get_region and of each row of
\* get_all_region_aggregates, and lifecycle_integrity where it is a
\* percentage (the precomputed table).
C17_PercentagesAtMost100 ==
    LET AtMost100(x) == x[1] <= 100 * x[2]
        Within(v) ==
            /\ AtMost100(v.adult_enrolment_share)
            /\ AtMost100(v.child_enrolment_share)
            /\ AtMost100(v.adult_bio_compliance)
            /\ AtMost100(v.child_bio_compliance)
            /\ USE_PRECOMPUTED => AtMost100(v.lifecycle_integrity)
    IN  /\ (request[1] = "district" /\ response.status = 200) => Within(response)
        /\ (request[1] = "all" /\ response.status = 200) =>
              \A i \in 1..Len(response.aggregates) :
                  Within(response.aggregates[i][2])

\* C20: a region that occurs in one of the raw collections has a time-series
\* entry: the response for a region that was found carries a time series
\* that is not empty.
C20_EveryRegionHasSeries ==
    (request[1] = "district" /\ response.status = 200 /\ response.state # Unknown) =>
        response.time_series # <<>>

\* C19: a collection loaded from a sequence of source units holds the rows of
\* every unit that could be read, all of them and in the order of the units;
\* a unit that cannot be read is skipped, and when no unit can be read the
\* collection is empty. Every load ends with a collection (none raises).
C19_LoadSkipsFailures ==
    loaded # <<>> =>
        LET rows == loaded[2].rows
            \* the rows read from the units before unit i
            Before(i) ==
                Cardinality(UNION {{<<j, u>> : u \in 1..Len(units[j].rows)} :
                                      j \in {x \in 1..(i - 1) : units[x].ok}})
        IN  /\ Len(rows) = Before(Len(units) + 1)
            /\ \A i \in 1..Len(units) :
                  units[i].ok =>
                      \A u \in 1..Len(units[i].rows) :
                          rows[Before(i) + u] = units[i].rows[u]
            /\ (\A i \in 1..Len(units) : ~units[i].ok) => loaded[2] = EmptyFrame

\* C19: a folder whose second file cannot be read was loaded, and the rows of
\* the first and the third file are there.
C19_Witness ==
    /\ loaded # <<>>
    /\ loaded[1] = "local"
    /\ Len(units) = 3
    /\ units[1].ok /\ ~units[2].ok /\ units[3].ok
    /\ Len(units[1].rows) = 1 /\ Len(units[3].rows) = 2
    /\ Len(loaded[2].rows) = 3

\* C18: whatever the interleaving of concurrent requests, the body of each
\* memoized function (load_datasets, compute_district_aggregates,
\* compute_time_series_data) is executed at most once in the life of the
\* process.
C18_ComputeOnce ==
    \A f \in Memoized : calls[f] <= 1

\* C21: when get_district_data returns the aggregate of a region and every
\* raw date parses, each kind of time series in the same response sums to
\* the total of that kind in the same response (total_enrolments,
\* total_demo_updates, total_bio_updates): the series is built from the
\* events of that (state, district) only, also when another state has a
\* district of the same name.
C21_SeriesOfSameRegion ==
    LET AllParse ==
            /\ \A r \in enrolment_df : IsDate(r.date)
            /\ \A r \in demographic_df : IsDate(r.date)
            /\ \A r \in biometric_df : IsDate(r.date)
        Totals(series) ==
            IF "total" \in DOMAIN series THEN series.total ELSE series.values
        SumsTo(kind, total) ==
            kind \in DOMAIN response.time_series =>
                SeqSum(Totals(response.time_series[kind])) = total
    IN  (/\ request[1] = "district"
         /\ response.status = 200
         /\ response.state # Unknown
         /\ AllParse) =>
            /\ SumsTo("enrolment", response.total_enrolments)
            /\ SumsTo("demographic", response.total_demo_updates)
            /\ SumsTo("biometric", response.total_bio_updates)

\* C22: under the relative policy the first three branches are exhaustive:
\* every region of every classified table is labelled Stable & Saturated,
\* Volatile or Growth-focused, never Under-maintained or Balanced, whatever
\* its adult biometric compliance.
C22_ThreeLabelsOnly ==
    (metrics # <<>> /\ metrics[1] = "relative") =>
        \A i \in 1..Len(metrics[2]) :
            metrics[2][i].district_typology
                \in {"Stable & Saturated", "Volatile", "Growth-focused"}

\* C22: a classified table holds a region that passed the first two branches
\* with an adult biometric compliance below 50, and one with a compliance of
\* at least 50
C22_Witness ==
    /\ metrics # <<>>
    /\ metrics[1] = "relative"
    /\ \E i \in 1..Len(metrics[2]), j \in 1..Len(metrics[2]) :
          /\ metrics[2][i].district_typology = "Growth-focused"
          /\ metrics[2][i].adult_bio_compliance[1]
                 < 50 * metrics[2][i].adult_bio_compliance[2]
          /\ metrics[2][j].district_typology = "Growth-focused"
          /\ metrics[2][j].adult_bio_compliance[1]
                 >= 50 * metrics[2][j].adult_bio_compliance[2]

\* C23: counts are conserved from the raw events to the summary: in every
\* summary that is served, total_enrolments is the number of enrolments
\* counted in the brackets of all raw enrolment events, and total_demo_updates
\* and total_bio_updates likewise for the demographic and biometric events,
\* also when two states have a district of the same name.
C23_CountsConserved ==
    LET Counted(df, cols) ==
            UNION {UNION {{<<r, col, u>> : u \in 1..r[col]} : col \in cols} :
                      r \in df}
    IN  (request[1] = "summary" /\ response.status = 200) =>
            /\ response.summary.total_enrolments
                   = Cardinality(Counted(enrolment_df,
                                         {"age_0_5", "age_5_17", "age_18_greater"}))
            /\ response.summary.total_demo_updates
                   = Cardinality(Counted(demographic_df,
                                         {"demo_age_5_17", "demo_age_17_"}))
            /\ response.summary.total_bio_updates
                   = Cardinality(Counted(biometric_df,
                                         {"bio_age_5_17", "bio_age_17_"}))

====
